---- MODULE Spec2Model ----
(***************************************************************************)
(* voteVisualizer: the vote-to-geography pipeline.                          *)
(*   src/src/senate.py, src/src/house.py      feed parsers and resolvers    *)
(*   src/src/geo/join_geo.py                  the joins                     *)
(*   src/src/maps/plot_senate.py              the normalizer, the pairs     *)
(*   src/house_map.py                         the standalone House script   *)
(* Strings are TLA+ strings; Python values that may be None or NaN are      *)
(* records [tag, text] so that None, NaN and "" stay three different things.*)
(***************************************************************************)
EXTENDS Integers, Sequences, FiniteSets, TLC

VARIABLES pc, chamber, feed, roster, votes, shapes, joined, state_votes, call, error,
          args, requests, report,
          visualizer, summary, drawn_map, last, runs

\* the variables of the build_map.py session: the SenateVoteVisualizer object,
\* what the current pass of the loop printed and drew, the latest fetch and
\* the number of passes
session_vars == <<visualizer, summary, drawn_map, last, runs>>

vars == <<pc, chamber, feed, roster, votes, shapes, joined, state_votes, call, error,
          args, requests, report, session_vars>>

(***************************************************************************)
(* Bounds of the model.                                                     *)
(***************************************************************************)
\* the longest feed document (member / recorded-vote entries) explored
MaxMembers == 3
\* the longest feed document explored in the runs that vary the command line,
\* the roll call and the answers of the HTTP requests
MaxShortMembers == 1
\* the largest congress number handed to _congress_to_year
MaxCongress == 120
\* the most passes of the loop of build_map.main in one session
MaxRuns == 3

(***************************************************************************)
(* Python values.                                                           *)
(***************************************************************************)
None == [tag |-> "None", text |-> ""]
NaN == [tag |-> "NaN", text |-> ""]
Str(s) == [tag |-> "str", text |-> s]

\* pandas.isna / pandas.notna on a scalar
isna(v) == v.tag \in {"None", "NaN"}
notna(v) == ~isna(v)

\* Python truthiness of an optional string: None and "" are falsy
truthy(v) == v.tag = "str" /\ v.text # ""

\* (x or "") on an optional string, as a plain string
orEmpty(v) == IF truthy(v) THEN v.text ELSE ""

(***************************************************************************)
(* Python string methods, character by character.                           *)
(***************************************************************************)
Whitespace == {" ", "\t", "\n", "\r"}
DigitChars == "0123456789"
UpperChars == "ABCDEFGHIJKLMNOPQRSTUVWXYZ"
LowerChars == "abcdefghijklmnopqrstuvwxyz"

CharAt(s, i) == SubSeq(s, i, i)

RECURSIVE lstrip(_)
lstrip(s) ==
    IF s = "" THEN ""
    ELSE IF Head(s) \in Whitespace THEN lstrip(Tail(s)) ELSE s

RECURSIVE rstrip(_)
rstrip(s) ==
    IF s = "" THEN ""
    ELSE IF CharAt(s, Len(s)) \in Whitespace
         THEN rstrip(SubSeq(s, 1, Len(s) - 1))
         ELSE s

\* str.strip()
strip(s) == rstrip(lstrip(s))

lowerChar(c) ==
    IF \E i \in 1..26 : CharAt(UpperChars, i) = c
    THEN CharAt(LowerChars, CHOOSE i \in 1..26 : CharAt(UpperChars, i) = c)
    ELSE c

\* str.lower()
RECURSIVE lower(_)
lower(s) == IF s = "" THEN "" ELSE lowerChar(Head(s)) \o lower(Tail(s))

upperChar(c) ==
    IF \E i \in 1..26 : CharAt(LowerChars, i) = c
    THEN CharAt(UpperChars, CHOOSE i \in 1..26 : CharAt(LowerChars, i) = c)
    ELSE c

\* str.upper()
RECURSIVE upper(_)
upper(s) == IF s = "" THEN "" ELSE upperChar(Head(s)) \o upper(Tail(s))

isDigitChar(c) == \E i \in 1..10 : CharAt(DigitChars, i) = c
digitVal(c) == (CHOOSE i \in 1..10 : CharAt(DigitChars, i) = c) - 1

RECURSIVE allDigits(_)
allDigits(s) == s = "" \/ (isDigitChar(Head(s)) /\ allDigits(Tail(s)))

\* "".join(ch for ch in s if ch.isdigit())
RECURSIVE onlyDigits(_)
onlyDigits(s) ==
    IF s = "" THEN ""
    ELSE (IF isDigitChar(Head(s)) THEN Head(s) ELSE "") \o onlyDigits(Tail(s))

RECURSIVE digitsToNat(_, _)
digitsToNat(s, acc) ==
    IF s = "" THEN acc ELSE digitsToNat(Tail(s), 10 * acc + digitVal(Head(s)))

RECURSIVE natToStr(_)
natToStr(n) ==
    IF n < 10 THEN CharAt(DigitChars, n + 1)
    ELSE natToStr(n \div 10) \o CharAt(DigitChars, (n % 10) + 1)

\* int(s) for a string: surrounding whitespace is ignored, one optional sign,
\* then at least one digit; anything else raises ValueError
intBody(s) ==
    LET t == strip(s)
    IN  IF t # "" /\ Head(t) \in {"+", "-"} THEN Tail(t) ELSE t
intOk(s) == intBody(s) # "" /\ allDigits(intBody(s))
intOf(s) ==
    LET t == strip(s)
        n == digitsToNat(intBody(s), 0)
    IN  IF t # "" /\ Head(t) = "-" THEN 0 - n ELSE n

RECURSIVE zeros(_)
zeros(n) == IF n <= 0 THEN "" ELSE "0" \o zeros(n - 1)

\* str.zfill(width): zeros go after a leading sign
zfill(s, width) ==
    IF s # "" /\ Head(s) \in {"+", "-"}
    THEN Head(s) \o zeros(width - Len(s)) \o Tail(s)
    ELSE zeros(width - Len(s)) \o s

\* f"{n:03d}"
fmt03d(n) ==
    IF n < 0 THEN zfill("-" \o natToStr(0 - n), 3) ELSE zfill(natToStr(n), 3)

(***************************************************************************)
(* Sequence helpers.                                                        *)
(***************************************************************************)
RECURSIVE TrueIdx(_, _)
\* the indices j >= i, in order, at which the sequence of booleans b is TRUE
TrueIdx(b, i) ==
    IF i > Len(b) THEN <<>>
    ELSE (IF b[i] THEN <<i>> ELSE <<>>) \o TrueIdx(b, i + 1)

RECURSIVE Flatten(_)
Flatten(ss) == IF ss = <<>> THEN <<>> ELSE Head(ss) \o Flatten(Tail(ss))

SeqsUpTo(S, n) == UNION {[1..k -> S] : k \in 0..n}

(***************************************************************************)
(* pandas.DataFrame(rows): a list of dicts becomes a table with the dicts'  *)
(* keys as columns; an empty list becomes a table with no columns at all.   *)
(***************************************************************************)
DataFrame(rows, columns) ==
    [cols |-> IF rows = <<>> THEN {} ELSE columns, rows |-> rows]

NoFrame == [cols |-> {}, rows |-> <<>>]

(***************************************************************************)
(* The vote normalizer, src/src/maps/plot_senate.py.                        *)
(***************************************************************************)
VOTE_NORMALIZE_KEYS ==
    {"Aye", "Yes", "Yea", "No", "Nay", "Present",
     "Not Voting", "NotVoting", "NV", "Excused", "Absent"}

\* the dict, on its string keys (the key None is handled by the caller)
VOTE_NORMALIZE(k) ==
    CASE k \in {"Aye", "Yes", "Yea"} -> "Yea"
      [] k \in {"No", "Nay"} -> "Nay"
      [] k = "Present" -> "Present"
      [] k \in {"Not Voting", "NotVoting", "NV", "Excused", "Absent"} -> "Not Voting"

\* str(v) for the values a vote column can hold
pystr(v) == IF v.tag = "str" THEN v.text ELSE IF v.tag = "NaN" THEN "nan" ELSE "None"

\* as normalize_vote, but the text is looked up without strip()
normalize_vote_nostrip(v) ==
    IF v.tag = "None" THEN Str("Not Voting")
    ELSE LET s == pystr(v)
         IN  IF s \in VOTE_NORMALIZE_KEYS THEN Str(VOTE_NORMALIZE(s)) ELSE Str(s)

\* as normalize_vote, but a text that is no key of the table becomes Not Voting
normalize_vote_default(v) ==
    IF v.tag = "None" THEN Str("Not Voting")
    ELSE LET s == strip(pystr(v))
         IN  IF s \in VOTE_NORMALIZE_KEYS THEN Str(VOTE_NORMALIZE(s))
             ELSE Str("Not Voting")

normalize_vote(v) ==
    IF v.tag = "None" THEN Str("Not Voting")
    ELSE LET s == strip(pystr(v))
         IN  IF s \in VOTE_NORMALIZE_KEYS THEN Str(VOTE_NORMALIZE(s)) ELSE Str(s)

\* the four-value vocabulary of the vote enum
Vocabulary == {"Yea", "Nay", "Present", "Not Voting"}

(***************************************************************************)
(* The Senate parser, src/src/senate.py.                                    *)
(* A member entry is [state, vote_cast]: the findtext() of the two children,*)
(* None when the child element is absent.                                   *)
(***************************************************************************)
\* as parse_senate_rows, but the vote is normalized before it is stored
RECURSIVE parse_senate_rows_normalized(_)
parse_senate_rows_normalized(members) ==
    IF members = <<>> THEN <<>>
    ELSE LET m == Head(members)
             state == strip(orEmpty(m.state))
         IN  (IF state # ""
              THEN <<[geoid |-> Str(state), vote |-> normalize_vote(m.vote_cast)]>>
              ELSE <<>>) \o parse_senate_rows_normalized(Tail(members))

\* the keys of TILE_POS, src/src/maps/plot_senate.py: the fifty states
TILE_POS_KEYS ==
    {"AK", "HI", "WA", "ID", "MT", "ND", "MN", "WI", "MI", "OR", "NV", "WY", "SD",
     "IA", "IL", "IN", "OH", "PA", "CA", "UT", "CO", "NE", "MO", "KY", "WV", "VA",
     "MD", "DE", "AZ", "NM", "KS", "AR", "TN", "NC", "SC", "OK", "LA", "MS", "AL",
     "GA", "FL", "TX", "NY", "NJ", "CT", "RI", "MA", "VT", "NH", "ME"}

RECURSIVE parse_senate_rows_recognized(_)
\* as parse_senate_rows, but a state that is none of the fifty is skipped
parse_senate_rows_recognized(members) ==
    IF members = <<>> THEN <<>>
    ELSE LET m == Head(members)
             state == strip(orEmpty(m.state))
             v == strip(orEmpty(m.vote_cast))
             vote == IF v = "" THEN "Not Voting" ELSE v
         IN  (IF state \in TILE_POS_KEYS
              THEN <<[geoid |-> Str(state), vote |-> Str(vote)]>>
              ELSE <<>>) \o parse_senate_rows_recognized(Tail(members))

RECURSIVE parse_senate_rows_until_stateless(_)
\* as parse_senate_rows, but the loop ends at the first entry without a state
parse_senate_rows_until_stateless(members) ==
    IF members = <<>> THEN <<>>
    ELSE LET m == Head(members)
             state == strip(orEmpty(m.state))
             v == strip(orEmpty(m.vote_cast))
             vote == IF v = "" THEN "Not Voting" ELSE v
         IN  IF state = "" THEN <<>>
             ELSE <<[geoid |-> Str(state), vote |-> Str(vote)]>>
                  \o parse_senate_rows_until_stateless(Tail(members))

RECURSIVE parse_senate_rows(_)
parse_senate_rows(members) ==
    IF members = <<>> THEN <<>>
    ELSE LET m == Head(members)
             state == strip(orEmpty(m.state))
             v0 == strip(orEmpty(m.vote_cast))
             vote == IF v0 # "" THEN v0 ELSE "Not Voting"
         IN  (IF state # ""
              THEN <<[geoid |-> Str(state), vote |-> Str(vote)]>>
              ELSE <<>>) \o parse_senate_rows(Tail(members))

parse_senate_members(members) ==
    DataFrame(parse_senate_rows(members), {"geoid", "vote"})

(***************************************************************************)
(* The House roster resolver, src/src/house.py.                             *)
(***************************************************************************)
STATEFP_TABLE ==
    << <<"AL","01">>, <<"AK","02">>, <<"AZ","04">>, <<"AR","05">>, <<"CA","06">>,
       <<"CO","08">>, <<"CT","09">>, <<"DE","10">>, <<"DC","11">>, <<"FL","12">>,
       <<"GA","13">>, <<"HI","15">>, <<"ID","16">>, <<"IL","17">>, <<"IN","18">>,
       <<"IA","19">>, <<"KS","20">>, <<"KY","21">>, <<"LA","22">>, <<"ME","23">>,
       <<"MD","24">>, <<"MA","25">>, <<"MI","26">>, <<"MN","27">>, <<"MS","28">>,
       <<"MO","29">>, <<"MT","30">>, <<"NE","31">>, <<"NV","32">>, <<"NH","33">>,
       <<"NJ","34">>, <<"NM","35">>, <<"NY","36">>, <<"NC","37">>, <<"ND","38">>,
       <<"OH","39">>, <<"OK","40">>, <<"OR","41">>, <<"PA","42">>, <<"RI","44">>,
       <<"SC","45">>, <<"SD","46">>, <<"TN","47">>, <<"TX","48">>, <<"UT","49">>,
       <<"VT","50">>, <<"VA","51">>, <<"WA","53">>, <<"WV","54">>, <<"WI","55">>,
       <<"WY","56">>, <<"PR","72">>, <<"VI","78">>, <<"GU","66">>, <<"MP","69">>,
       <<"AS","60">> >>

\* STATEFP.get(state_abbr, "")
STATEFP(state_abbr) ==
    IF \E i \in DOMAIN STATEFP_TABLE : STATEFP_TABLE[i][1] = state_abbr
    THEN STATEFP_TABLE[CHOOSE i \in DOMAIN STATEFP_TABLE :
                           STATEFP_TABLE[i][1] = state_abbr][2]
    ELSE ""

\* Of a recorded-vote entry the parser reads legislator, name_id, state and
\* vote: whether the legislator child exists, its name-id and state
\* attributes, the vote text.
RECURSIVE parse_house_rows(_)
parse_house_rows(rvs) ==
    IF rvs = <<>> THEN <<>>
    ELSE LET rv == Head(rvs)
         IN  (IF ~rv.legislator THEN <<>>
              ELSE <<[bioguide |-> strip(orEmpty(rv.name_id)),
                      state |-> strip(orEmpty(rv.state)),
                      vote |-> strip(orEmpty(rv.vote))]>>)
             \o parse_house_rows(Tail(rvs))

parse_house_roll(rvs) ==
    DataFrame(parse_house_rows(rvs), {"bioguide", "state", "vote"})

\* A roster member entry is [bioguideID, statedistrict]; a later entry for the
\* same id overwrites the earlier one (dict assignment).
RECURSIVE member_map(_, _)
member_map(members, mapping) ==
    IF members = <<>> THEN mapping
    ELSE LET m == Head(members)
             bid == strip(orEmpty(m.bioguideID))
             sd == strip(orEmpty(m.statedistrict))
         IN  member_map(Tail(members),
                 IF bid # "" /\ Len(sd) >= 3
                 THEN [k \in DOMAIN mapping \cup {bid} |->
                          IF k = bid THEN sd ELSE mapping[k]]
                 ELSE mapping)

load_member_map_from_web(members) == member_map(members, [k \in {} |-> ""])

\* as roster_geoid, but the district is padded to three digits
roster_geoid_zfill3(sd) ==
    LET state_abbr == SubSeq(sd, 1, IF Len(sd) < 2 THEN Len(sd) ELSE 2)
        rest == SubSeq(sd, 3, Len(sd))
        dist == IF rest # "" THEN zfill(rest, 3) ELSE ""
        statefp == STATEFP(state_abbr)
    IN  IF statefp # "" /\ dist # "" THEN statefp \o dist ELSE ""

\* the geoid the roster resolver builds from a statedistrict token, "" if none
roster_geoid(sd) ==
    LET state_abbr == SubSeq(sd, 1, IF Len(sd) < 2 THEN Len(sd) ELSE 2)
        rest == SubSeq(sd, 3, Len(sd))
        dist == IF rest # "" THEN zfill(rest, 2) ELSE ""
        statefp == STATEFP(state_abbr)
    IN  IF statefp # "" /\ dist # "" THEN statefp \o dist ELSE ""

RECURSIVE build_geoid_rows_any_state(_, _)
\* as build_geoid_rows, but the state of the roster entry is not looked up:
\* every record whose id is in the roster is kept
build_geoid_rows_any_state(rows, bioguide_to_sd) ==
    IF rows = <<>> THEN <<>>
    ELSE LET r == Head(rows)
         IN  (IF r.bioguide \in DOMAIN bioguide_to_sd
              THEN <<[geoid |-> Str(bioguide_to_sd[r.bioguide]), vote |-> Str(r.vote)]>>
              ELSE <<>>) \o build_geoid_rows_any_state(Tail(rows), bioguide_to_sd)

RECURSIVE build_geoid_rows(_, _)
build_geoid_rows(rows, bioguide_to_sd) ==
    IF rows = <<>> THEN <<>>
    ELSE LET r == Head(rows)
             sd == IF r.bioguide \in DOMAIN bioguide_to_sd
                   THEN bioguide_to_sd[r.bioguide] ELSE ""
             geoid == IF sd = "" THEN "" ELSE roster_geoid(sd)
         IN  (IF geoid # ""
              THEN <<[geoid |-> Str(geoid), vote |-> Str(r.vote)]>>
              ELSE <<>>) \o build_geoid_rows(Tail(rows), bioguide_to_sd)

build_geoid_df(votes_df, bioguide_to_sd) ==
    DataFrame(build_geoid_rows(votes_df.rows, bioguide_to_sd), {"geoid", "vote"})

(***************************************************************************)
(* The standalone House script, src/house_map.py.                           *)
(***************************************************************************)
\* state_abbr_to_fips with the built-in table (the fallback when the optional
\* `us` package is not installed); None when there is no such state
state_abbr_to_fips(state_abbr) ==
    IF ~truthy(state_abbr) THEN None
    ELSE LET f == STATEFP(upper(state_abbr.text))
         IN  IF f = "" THEN None ELSE Str(f)

AtLargeTokens == {"al", "at-large", "at large", "0", "00"}

\* as normalize_district_to_3digits, but an at-large seat gets two digits
normalize_district_at_large_00(district) ==
    IF district.tag = "None" THEN "00"
    ELSE LET s == strip(district.text)
         IN  IF lower(s) \in AtLargeTokens THEN "00"
             ELSE IF intOk(s) THEN fmt03d(intOf(s))
             ELSE LET digits == onlyDigits(s)
                  IN  IF digits = "" THEN "000" ELSE fmt03d(digitsToNat(digits, 0))

normalize_district_to_3digits(district) ==
    IF district.tag = "None" THEN "000"
    ELSE LET s == strip(district.text)
         IN  IF lower(s) \in AtLargeTokens THEN "000"
             ELSE IF intOk(s) THEN fmt03d(intOf(s))
             ELSE LET digits == onlyDigits(s)
                  IN  IF digits = "" THEN "000" ELSE fmt03d(digitsToNat(digits, 0))

compute_geoid(state_abbr, district) ==
    LET fips == state_abbr_to_fips(state_abbr)
    IN  IF ~truthy(fips) THEN None
        ELSE Str(fips.text \o normalize_district_to_3digits(district))

COLORS_KEYS == {Str("Yea"), Str("Nay"), Str("Present"), Str("Not Voting"), None}

\* lambda v: v if v in COLORS else ("Not Voting" if pd.isna(v) else v)
vote_mapping(v) ==
    IF v \in COLORS_KEYS THEN v
    ELSE IF isna(v) THEN Str("Not Voting") ELSE v

\* A recorded-vote entry is [legislator, vote_el, state, district, text]:
\* whether the two children exist, the two attributes, the vote element's text.
\* `missing` is how the frame stores a None of the vote column: None itself
\* (object column) or NaN (string column), depending on the pandas release.
RECURSIVE fetch_vote_rows(_, _)
fetch_vote_rows(rvs, missing) ==
    IF rvs = <<>> THEN <<>>
    ELSE LET rv == Head(rvs)
             t == strip(orEmpty(rv.text))
             vote_txt == IF t # "" THEN Str(t) ELSE missing
         IN  (IF ~rv.legislator \/ ~rv.vote_el THEN <<>>
              ELSE <<[state |-> rv.state, district |-> rv.district,
                      vote |-> vote_mapping(vote_txt),
                      geoid |-> compute_geoid(rv.state, rv.district)]>>)
             \o fetch_vote_rows(Tail(rvs), missing)

\* df["vote"] raises KeyError on the column-less frame of an empty row list
fetch_vote_data(rvs, missing) ==
    LET rows == fetch_vote_rows(rvs, missing)
    IN  IF rows = <<>> THEN [ok |-> FALSE, exc |-> "KeyError", df |-> NoFrame]
        ELSE [ok |-> TRUE, exc |-> "",
              df |-> DataFrame(rows, {"state", "district", "vote", "geoid"})]

(***************************************************************************)
(* Feed URLs and the HTTP requests of a fetch.                              *)
(* A request is [method, url, status]; status is the response's status code *)
(* as text, or the name of the exception the request raised.                *)
(***************************************************************************)
\* f"{n:04d}" and f"{n:05d}"
fmt04d(n) ==
    IF n < 0 THEN zfill("-" \o natToStr(0 - n), 4) ELSE zfill(natToStr(n), 4)
fmt05d(n) ==
    IF n < 0 THEN zfill("-" \o natToStr(0 - n), 5) ELSE zfill(natToStr(n), 5)

Request(method, url, status) == [method |-> method, url |-> url, status |-> status]

senate_url(congress, session, roll) ==
    "https://www.senate.gov/legislative/LIS/roll_call_votes/"
    \o "vote" \o natToStr(congress) \o natToStr(session)
    \o "/vote_" \o fmt03d(congress) \o "_" \o natToStr(session)
    \o "_" \o fmt05d(roll) \o ".xml"

MEMBER_URL == "https://clerk.house.gov/xml/lists/memberdata.xml"

\* as congress_to_year, but counting the first congress as congress zero
congress_to_year_from_zero(congress) == 1789 + congress * 2

congress_to_year(congress) == 1789 + (congress - 1) * 2

\* the two candidate paths of a House roll call, in the order they are tried
house_paths(year, roll) ==
    << "https://clerk.house.gov/evs/" \o natToStr(year) \o "/roll" \o fmt03d(roll) \o ".xml",
       "https://clerk.house.gov/evs/" \o natToStr(year) \o "/roll" \o fmt04d(roll) \o ".xml" >>

RECURSIVE head_loop(_, _)
\* the for loop of _house_url: HEAD each path in turn until one answers 200;
\* heads[i] is what the i-th HEAD would answer
head_loop(paths, heads) ==
    IF paths = <<>> THEN [ok |-> FALSE, url |-> "", log |-> <<>>]
    ELSE LET req == Request("HEAD", Head(paths), Head(heads))
         IN  IF Head(heads) = "200"
             THEN [ok |-> TRUE, url |-> Head(paths), log |-> <<req>>]
             ELSE LET rest == head_loop(Tail(paths), Tail(heads))
                  IN  [ok |-> rest.ok, url |-> rest.url, log |-> <<req>> \o rest.log]

\* as house_url, but every candidate path is requested before one is chosen
house_url_probe_all(year, roll, heads) ==
    LET paths == house_paths(year, roll)
        log == [i \in DOMAIN paths |-> Request("HEAD", paths[i], heads[i])]
        hit == {i \in DOMAIN paths : heads[i] = "200"}
    IN  IF hit = {} THEN [ok |-> FALSE, url |-> "", log |-> log]
        ELSE [ok |-> TRUE, url |-> paths[CHOOSE i \in hit : \A j \in hit : i <= j],
              log |-> log]

\* _house_url(year, roll): ok = FALSE is the ValueError raised after the loop
house_url(year, roll, heads) == head_loop(house_paths(year, roll), heads)

RECURSIVE get_loop(_, _)
\* the for loop of house_map.fetch_vote_data: GET each path in turn until one
\* succeeds (raise_for_status included); ok = FALSE is the RuntimeError
get_loop(paths, gets) ==
    IF paths = <<>> THEN [ok |-> FALSE, url |-> "", log |-> <<>>]
    ELSE LET req == Request("GET", Head(paths), Head(gets))
         IN  IF Head(gets) = "200"
             THEN [ok |-> TRUE, url |-> Head(paths), log |-> <<req>>]
             ELSE LET rest == get_loop(Tail(paths), Tail(gets))
                  IN  [ok |-> rest.ok, url |-> rest.url, log |-> <<req>> \o rest.log]

\* the session_paths of house_map.fetch_vote_data and its loop over them
fetch_vote_text(year, roll_call, gets) == get_loop(house_paths(year, roll_call), gets)

(***************************************************************************)
(* The interactive Senate script, src/build_map.py.                         *)
(* A document is [congress, session, vote_number, vote_date, question,      *)
(* vote_title, has_members, members]; a child element is Absent when        *)
(* find() returns None, else the value of its .text: None for an empty      *)
(* element, a string otherwise. A member is [state, vote_cast].             *)
(***************************************************************************)
Absent == [tag |-> "absent", text |-> ""]

\* el.text if el is not None else default
TextOr(el, default) == IF el = Absent THEN default ELSE el

\* the keys of STATE_POSITIONS
STATE_POSITIONS_KEYS ==
    {"AL", "AK", "AZ", "AR", "CA", "CO", "CT", "DE", "FL", "GA", "HI", "ID", "IL",
     "IN", "IA", "KS", "KY", "LA", "ME", "MD", "MA", "MI", "MN", "MS", "MO", "MT",
     "NE", "NV", "NH", "NJ", "NM", "NY", "NC", "ND", "OH", "OK", "OR", "PA", "RI",
     "SC", "SD", "TN", "TX", "UT", "VT", "VA", "WA", "WV", "WI", "WY"}

\* the vote_info dict built from the root element
vote_info_of(doc, congress, session, roll_call) ==
    [congress |-> TextOr(doc.congress, Str(natToStr(congress))),
     session |-> TextOr(doc.session, Str(natToStr(session))),
     vote_number |-> TextOr(doc.vote_number, Str(natToStr(roll_call))),
     vote_date |-> TextOr(doc.vote_date, Str("Unknown")),
     question |-> TextOr(doc.question, Str("Unknown")),
     vote_title |-> TextOr(doc.vote_title, Str("Unknown"))]

EmptyInfo == [k \in {} |-> None]
EmptyData == [k \in {} |-> <<>>]

RECURSIVE collect_votes(_, _)
\* the loop over members.findall('member'): vote_data[state].append(vote_cast)
\* on the dict data; a member with no state, or an empty one, is passed over
collect_votes(members, data) ==
    IF members = <<>> THEN data
    ELSE LET m == Head(members)
             state == TextOr(m.state, None)
             vote_cast == TextOr(m.vote_cast, Str("Not Voting"))
         IN  collect_votes(Tail(members),
                 IF truthy(state)
                 THEN [k \in DOMAIN data \cup {state.text} |->
                          IF k = state.text
                          THEN (IF k \in DOMAIN data THEN data[k] ELSE <<>>) \o <<vote_cast>>
                          ELSE data[k]]
                 ELSE data)

\* what the request and the parse of a fetch give: [kind |-> "doc", doc |-> d],
\* or kind "RequestException", "ParseError" or "Exception" when one of them
\* raised
NoDoc ==
    [congress |-> Absent, session |-> Absent, vote_number |-> Absent,
     vote_date |-> Absent, question |-> Absent, vote_title |-> Absent,
     has_members |-> FALSE, members |-> <<>>]
Raised(kind) == [kind |-> kind, doc |-> NoDoc]
Fetched_doc(d) == [kind |-> "doc", doc |-> d]

\* as SenateVoteVisualizer_fetch_vote_data, but the two attributes are reset
\* before the try block, so a failed call returns False with both emptied
SenateVoteVisualizer_fetch_vote_data_reset_first(self, congress, session, roll_call, got) ==
    IF got.kind # "doc"
    THEN [ret |-> FALSE, vote_info |-> EmptyInfo, vote_data |-> EmptyData]
    ELSE [ret |-> TRUE,
          vote_info |-> vote_info_of(got.doc, congress, session, roll_call),
          vote_data |-> IF got.doc.has_members
                        THEN collect_votes(got.doc.members, EmptyData)
                        ELSE EmptyData]

\* as SenateVoteVisualizer_fetch_vote_data, but vote_data is not replaced by a
\* new dict: the votes of the document are appended to the lists already there
SenateVoteVisualizer_fetch_vote_data_appending(self, congress, session, roll_call, got) ==
    IF got.kind # "doc"
    THEN [ret |-> FALSE, vote_info |-> self.vote_info, vote_data |-> self.vote_data]
    ELSE [ret |-> TRUE,
          vote_info |-> vote_info_of(got.doc, congress, session, roll_call),
          vote_data |-> IF got.doc.has_members
                        THEN collect_votes(got.doc.members, self.vote_data)
                        ELSE self.vote_data]

\* SenateVoteVisualizer.fetch_vote_data: the return value and the two
\* attributes of self after the call; nothing is assigned before the request
\* and the parse have succeeded, and nothing after them can raise
SenateVoteVisualizer_fetch_vote_data(self, congress, session, roll_call, got) ==
    IF got.kind # "doc"
    THEN [ret |-> FALSE, vote_info |-> self.vote_info, vote_data |-> self.vote_data]
    ELSE [ret |-> TRUE,
          vote_info |-> vote_info_of(got.doc, congress, session, roll_call),
          vote_data |-> IF got.doc.has_members
                        THEN collect_votes(got.doc.members, EmptyData)
                        ELSE EmptyData]

\* how often the value v is in the list
vote_count(vote_list, v) == Cardinality({i \in DOMAIN vote_list : vote_list[i] = v})

\* as determine_state_vote, but the larger count wins and only a tie is Split
determine_state_vote_majority(vote_list) ==
    LET yea_count == vote_count(vote_list, Str("Yea"))
        nay_count == vote_count(vote_list, Str("Nay"))
    IN  IF vote_list = <<>> THEN "Not Voting"
        ELSE IF yea_count > nay_count THEN "Yea"
        ELSE IF nay_count > yea_count THEN "Nay"
        ELSE IF yea_count > 0 THEN "Split"
        ELSE "Not Voting"

\* SenateVoteVisualizer.determine_state_vote(votes)
determine_state_vote(vote_list) ==
    LET yea_count == vote_count(vote_list, Str("Yea"))
        nay_count == vote_count(vote_list, Str("Nay"))
        \* max(vote_counts, key=vote_counts.get): the first key, in insertion
        \* order, among those counted most often
        most_common_vote ==
            vote_list[CHOOSE i \in DOMAIN vote_list :
                     /\ \A j \in DOMAIN vote_list :
                           vote_count(vote_list, vote_list[j]) <= vote_count(vote_list, vote_list[i])
                     /\ \A j \in 1..(i - 1) :
                           vote_count(vote_list, vote_list[j]) < vote_count(vote_list, vote_list[i])]
    IN  IF vote_list = <<>> THEN "Not Voting"
        ELSE IF yea_count > 0 /\ nay_count > 0 THEN "Split"
        ELSE IF yea_count > nay_count THEN "Yea"
        ELSE IF nay_count > yea_count THEN "Nay"
        ELSE IF most_common_vote \in {Str("Yea"), Str("Nay")}
             THEN most_common_vote.text ELSE "Not Voting"

\* print_vote_summary: nothing when vote_data is empty, else the vote_info
\* and, for every state of vote_data, its result and its votes
print_vote_summary(self) ==
    IF DOMAIN self.vote_data = {} THEN [printed |-> FALSE, info |-> EmptyInfo,
                                        states |-> EmptyData, error |-> ""]
    ELSE [printed |-> TRUE, info |-> self.vote_info,
          states |-> [st \in DOMAIN self.vote_data |->
                         [result |-> determine_state_vote(self.vote_data[st]),
                          votes |-> self.vote_data[st]]],
          error |-> IF \E st \in DOMAIN self.vote_data :
                          /\ Len(self.vote_data[st]) <= 2
                          /\ \E i \in DOMAIN self.vote_data[st] :
                                self.vote_data[st][i] = None
                    THEN "TypeError" ELSE ""]

\* create_map: nothing when vote_data is empty, else the title fields and the
\* result of every state of STATE_POSITIONS, the empty list for a state that
\* vote_data does not have
create_map(self) ==
    IF DOMAIN self.vote_data = {} THEN [drawn |-> FALSE, info |-> EmptyInfo,
                                        states |-> EmptyData]
    ELSE [drawn |-> TRUE, info |-> self.vote_info,
          states |-> [st \in STATE_POSITIONS_KEYS |->
                         determine_state_vote(IF st \in DOMAIN self.vote_data
                                              THEN self.vote_data[st] ELSE <<>>)]]

(***************************************************************************)
(* The joins, src/src/geo/join_geo.py and src/house_map.py.                 *)
(* shapes is the sequence of the geometry rows' keys (STUSPS or GEOID); a   *)
(* joined row is [key, geoid, vote], geoid and vote NaN where nothing       *)
(* matched.                                                                 *)
(***************************************************************************)
KeyError == [ok |-> FALSE, exc |-> "KeyError", rows |-> <<>>]
ValueError == [ok |-> FALSE, exc |-> "ValueError", rows |-> <<>>]
Joined(rows) == [ok |-> TRUE, exc |-> "", rows |-> rows]

\* the indices of the vote rows whose geoid is the key k, in row order
MatchIdx(rows, k) == TrueIdx([j \in DOMAIN rows |-> rows[j].geoid = Str(k)], 1)

\* as join_votes_state, but an inner join: a state without votes gets no row
join_votes_state_inner(v, s) ==
    IF "geoid" \notin v.cols THEN KeyError
    ELSE Joined(Flatten(
           [i \in DOMAIN s |->
              LET m == MatchIdx(v.rows, s[i])
              IN  [j \in DOMAIN m |->
                     [key |-> s[i], geoid |-> v.rows[m[j]].geoid,
                      vote |-> v.rows[m[j]].vote]]]))

\* pd.merge(left=shapes, right=votes, left_on="STUSPS", right_on="geoid", how="left")
join_votes_state(v, s) ==
    IF "geoid" \notin v.cols THEN KeyError
    ELSE Joined(Flatten(
           [i \in DOMAIN s |->
              LET m == MatchIdx(v.rows, s[i])
              IN  IF m = <<>> THEN <<[key |-> s[i], geoid |-> NaN, vote |-> NaN]>>
                  ELSE [j \in DOMAIN m |->
                          [key |-> s[i], geoid |-> v.rows[m[j]].geoid,
                           vote |-> v.rows[m[j]].vote]]]))

\* as first, but the first row's value whether it is null or not
first_row(vals) == Head(vals)

\* GroupBy.first() of one group: the first value that is not null, and a null
\* only when every value of the group is null
first(vals) ==
    LET nn == TrueIdx([j \in DOMAIN vals |-> notna(vals[j])], 1)
    IN  IF nn = <<>> THEN Head(vals) ELSE vals[nn[1]]

\* as join_votes_district, but the missing votes are filled with "Not Voting"
join_votes_district_fillna(v, s) ==
    IF "geoid" \notin v.cols THEN KeyError
    ELSE Joined(
           [i \in DOMAIN s |->
              LET m == MatchIdx(v.rows, s[i])
              IN  IF m = <<>>
                  THEN [key |-> s[i], geoid |-> NaN, vote |-> Str("Not Voting")]
                  ELSE [key |-> s[i], geoid |-> Str(s[i]),
                        vote |-> first([j \in DOMAIN m |-> v.rows[m[j]].vote])]])

\* votes.groupby("geoid", as_index=False)["vote"].first() then the left merge;
\* groupby leaves out the rows whose geoid is null
join_votes_district(v, s) ==
    IF "geoid" \notin v.cols THEN KeyError
    ELSE Joined(
           [i \in DOMAIN s |->
              LET m == MatchIdx(v.rows, s[i])
              IN  IF m = <<>> THEN [key |-> s[i], geoid |-> NaN, vote |-> NaN]
                  ELSE [key |-> s[i], geoid |-> Str(s[i]),
                        vote |-> first([j \in DOMAIN m |-> v.rows[m[j]].vote])]])

merge_dataframes(df, gdf) == join_votes_district(df, gdf)

\* as join_votes, but any chamber other than senate is joined by district
join_votes_else_district(ch, v, s) ==
    IF ch = "senate" THEN join_votes_state(v, s) ELSE join_votes_district(v, s)

join_votes(ch, v, s) ==
    IF ch = "senate" THEN join_votes_state(v, s)
    ELSE IF ch = "house" THEN join_votes_district(v, s)
    ELSE ValueError

(***************************************************************************)
(* The Senate pairs, src/src/maps/plot_senate.py.                           *)
(***************************************************************************)
\* the votes of the joined rows of state st, normalized, nulls left out
state_vals(rows, st) ==
    LET idx == TrueIdx([j \in DOMAIN rows |-> rows[j].key = st], 1)
        nv == [j \in DOMAIN idx |-> normalize_vote(rows[idx[j]].vote)]
        keep == TrueIdx([j \in DOMAIN nv |-> notna(nv[j])], 1)
    IN  [j \in DOMAIN keep |-> nv[keep[j]].text]

\* as votes_by_state, but the pair is cut from the end of the list
votes_by_state_last2(rows) ==
    [st \in {rows[i].key : i \in DOMAIN rows} |->
        LET vals == state_vals(rows, st) \o <<"Not Voting", "Not Voting">>
        IN  IF Len(state_vals(rows, st)) >= 2
            THEN SubSeq(state_vals(rows, st), Len(state_vals(rows, st)) - 1,
                        Len(state_vals(rows, st)))
            ELSE SubSeq(vals, 1, 2)]

\* { STUSPS -> [vote_for_sen1, vote_for_sen2] }
votes_by_state(rows) ==
    [st \in {rows[i].key : i \in DOMAIN rows} |->
        SubSeq(state_vals(rows, st) \o <<"Not Voting", "Not Voting">>, 1, 2)]

(***************************************************************************)
(* Inputs explored: feed documents, rosters, geometry files, arguments.     *)
(***************************************************************************)
SenateMemberEntries ==
    [state : {None, Str("CA"), Str(" TX"), Str("ZZ")},
     vote_cast : {None, Str("Yea"), Str(" Nay"), Str("Aye")}]

\* member entries with an empty or blank state or vote_cast element, explored
\* in the short documents
SenateBlankEntries ==
    [state : {Str(""), Str("  "), Str("NY")},
     vote_cast : {Str(""), Str(" "), Str("Nay")}]

\* A recorded-vote entry is [legislator, name_id, state, district, vote]; the
\* district attribute is in the feed but no function of src/src/house.py reads it.
HouseRecordedVotes ==
    {[legislator |-> FALSE, name_id |-> None, state |-> None, district |-> None,
      vote |-> None]}
    \cup [legislator : {TRUE}, name_id : {Str("A1"), Str("B2"), Str("C3")},
          state : {Str("CA")}, district : {Str("12")},
          vote : {None, Str("Yea"), Str("Nay ")}]

\* the recorded votes of the document of tests/test_house.py: state and
\* district inline, no name-id attribute
HouseInlineVotes ==
    {[legislator |-> TRUE, name_id |-> None, state |-> Str("CA"),
      district |-> Str("12"), vote |-> Str("Yea")],
     [legislator |-> TRUE, name_id |-> None, state |-> Str("TX"),
      district |-> Str("07"), vote |-> Str("Nay")]}

RosterEntry(bid, sd) == [bioguideID |-> bid, statedistrict |-> sd]

RosterDocs ==
    { <<RosterEntry(Str("A1"), Str("CA12")), RosterEntry(Str("B2"), Str("TX07"))>>,
      <<RosterEntry(Str("A1"), Str("AK00")), RosterEntry(Str("B2"), Str("TX07")),
        RosterEntry(Str("B2"), Str("ZZ01")),
        RosterEntry(Str("C3"), Str(" CA12 "))>>,
      <<RosterEntry(Str("A1"), Str("NY10")), RosterEntry(Str("A1"), Str("CA12")),
        RosterEntry(None, Str("TX07")), RosterEntry(Str("B2"), Str("TX")),
        RosterEntry(Str("C3"), Str("TX7"))>>,
      <<>> }

HouseMapEntry(leg, vel, st, d, t) ==
    [legislator |-> leg, vote_el |-> vel, state |-> st, district |-> d, text |-> t]

HouseMapRecordedVotes ==
    { HouseMapEntry(FALSE, TRUE, None, None, Str("Yea")),
      HouseMapEntry(TRUE, FALSE, Str("CA"), Str("12"), None),
      HouseMapEntry(TRUE, TRUE, Str("CA"), Str("12"), Str("Yea")),
      HouseMapEntry(TRUE, TRUE, Str("CA"), Str("12"), Str("Nay")),
      HouseMapEntry(TRUE, TRUE, Str("CA"), Str("12"), None),
      HouseMapEntry(TRUE, TRUE, Str("TX"), Str("07"), Str(" Aye ")),
      HouseMapEntry(TRUE, TRUE, Str("WY"), Str("At-Large"), Str("Present")),
      HouseMapEntry(TRUE, TRUE, Str("ZZ"), Str("1"), Str("Yea")) }

\* the geometry files: the key column of the rows read from the shapefile
StateShapes == { <<"CA", "TX", "NY">>, <<"TX", "CA">> }
DistrictShapes == { <<"0612", "4807", "3601">>, <<"0200", "0612">> }
DistrictShapes5 == { <<"06012", "48007", "36001">>, <<"56000", "06012">> }

ShapeChoices(ch) ==
    IF ch = "senate" THEN StateShapes
    ELSE IF ch = "house" THEN DistrictShapes ELSE DistrictShapes5

\* vote texts handed to the normalizer: every key of the table as written, in
\* lower case, in upper case and with surrounding blanks, and other texts
VoteTexts ==
    UNION {{k, lower(k), upper(k), " " \o k \o "  "} : k \in VOTE_NORMALIZE_KEYS}
    \cup {"", " ", "Maybe", "Not  Voting", "Guilty"}

NormalizeInputs == {None, NaN} \cup {Str(t) : t \in VoteTexts}

StateArgs == {None, Str(""), Str("CA"), Str("tx"), Str("WY"), Str("ZZ")}

DistrictTexts ==
    {"0", "00", "AL", "al", "Al", "At-Large", "AT-LARGE", "at-large",
     "at large", "At Large", " 00 ",
     "1", "07", "12", " 12", "53", "999", "1000", "-5", "12th", "x", ""}

DistrictArgs == {None} \cup {Str(t) : t \in DistrictTexts}

\* what a HEAD or a GET of a feed URL may answer
HeadOutcomes == {"200", "404", "RequestException"}
GetOutcomes == {"200", "404", "ConnectionError"}

\* the exceptions a fetch lets through: raise_for_status, requests.get itself,
\* ET.fromstring
FetchExceptions == {"HTTPError", "ConnectionError", "ParseError"}

\* the status of the request on which a fetch raises e: a body that does not
\* parse came with status 200, raise_for_status raises on an error status
FailedStatus(e) == IF e = "ParseError" THEN "200" ELSE IF e = "HTTPError" THEN "404" ELSE e

\* roll calls asked for: the one of the tests, and one with a four-digit roll
RollCalls ==
    {[congress |-> 117, session |-> 1, roll |-> 45],
     [congress |-> 118, session |-> 2, roll |-> 1234]}

\* the parsed command line of cli.main; NoArgs when a function is called
\* directly, DirectCall is then the roll call it is called with
CliArgs ==
    {[chamber |-> ch, congress |-> rc.congress, session |-> rc.session,
      roll |-> rc.roll] : ch \in {"senate", "house"}, rc \in RollCalls}
NoArgs == [chamber |-> "", congress |-> 0, session |-> 0, roll |-> 0]
DirectCall == [congress |-> 117, session |-> 1, roll |-> 45]

\* the year and roll call typed into house_map.main: the example of its
\* prompt, and a roll call above 999
HouseMapExample == [year |-> 2025, roll |-> 207]
HouseMapInputs == {HouseMapExample, [year |-> 1995, roll |-> 1002]}

\* chamber arguments handed to join_votes: the two it knows, the one of
\* tests/test_geo.py, another letter case, the empty string
ChamberArgs == {"senate", "house", "galactic-senate", "Senate", ""}

\* votes tables handed to join_votes: two records of one key, by state and by
\* district, a null vote first, and the table of an empty record list
JoinFrames ==
    { DataFrame(<<[geoid |-> Str("CA"), vote |-> Str("Yea")],
                  [geoid |-> Str("CA"), vote |-> Str("Nay")]>>, {"geoid", "vote"}),
      DataFrame(<<[geoid |-> Str("4807"), vote |-> None],
                  [geoid |-> Str("4807"), vote |-> Str("Nay")]>>, {"geoid", "vote"}),
      DataFrame(<<>>, {"geoid", "vote"}) }

\* the vote_cast values handed to determine_state_vote: the four labels of
\* the feed, another letter case, and the None of an empty element
VoteCasts ==
    {Str("Yea"), Str("Nay"), Str("Present"), Str("Not Voting"), Str("yea"), None}

\* the header elements of the documents of a build_map session: all there,
\* all missing, and there but empty or of another roll call
BuildMapHeaders ==
    { [congress |-> Str("119"), session |-> Str("1"), vote_number |-> Str("160"),
       vote_date |-> Str("July 1, 2025"), question |-> Str("On Passage"),
       vote_title |-> Str("H.R. 1")],
      [congress |-> Absent, session |-> Absent, vote_number |-> Absent,
       vote_date |-> Absent, question |-> Absent, vote_title |-> Absent],
      [congress |-> Str("119"), session |-> Str("1"), vote_number |-> Str("161"),
       vote_date |-> None, question |-> Str("On the Nomination"),
       vote_title |-> None] }

BuildMapMember(st, vc) == [state |-> st, vote_cast |-> vc]

\* the member lists of those documents; the first element says whether the
\* document has a members element at all
BuildMapMemberLists ==
    { <<TRUE, <<BuildMapMember(Str("CA"), Str("Yea")), BuildMapMember(Str("CA"), Str("Nay")),
               BuildMapMember(Str("TX"), Str("Yea"))>> >>,
      <<TRUE, <<BuildMapMember(Str("TX"), Str("Nay")), BuildMapMember(Absent, Str("Yea")),
               BuildMapMember(Str("NY"), Absent), BuildMapMember(None, Str("Nay")),
               BuildMapMember(Str("NY"), None)>> >>,
      <<TRUE, <<BuildMapMember(Str("WA"), Str("Present"))>> >>,
      <<TRUE, <<>> >>,
      <<FALSE, <<>> >> }

BuildMapDocs ==
    {[congress |-> h.congress, session |-> h.session, vote_number |-> h.vote_number,
      vote_date |-> h.vote_date, question |-> h.question, vote_title |-> h.vote_title,
      has_members |-> ml[1], members |-> ml[2]] :
        h \in BuildMapHeaders, ml \in BuildMapMemberLists}

\* what the request and the parse of a fetch of the session may give
BuildMapOutcomes ==
    {Fetched_doc(d) : d \in BuildMapDocs} \cup
    {Raised("RequestException"), Raised("ParseError"), Raised("Exception")}

RosterTokens == {"NY10", "CA12", "TX07", "AK00", "WY00", "TX7", "CA123", "ZZ01", "NY", "N", ""}

(***************************************************************************)
(* The state machine: one run of a script, or one call of a helper.         *)
(***************************************************************************)
NoJoin == [ok |-> FALSE, exc |-> "", rows |-> <<>>]
NoCall == [fn |-> "", arg |-> None, ret |-> None]
NoReport == [votes |-> 0, mapped |-> 0, unmapped |-> 0]

\* SenateVoteVisualizer.__init__
NewVisualizer == [vote_info |-> EmptyInfo, vote_data |-> EmptyData]
NoSummary == [printed |-> FALSE, info |-> EmptyInfo, states |-> EmptyData, error |-> ""]
NoMap == [drawn |-> FALSE, info |-> EmptyInfo, states |-> EmptyData]
NoFetch == [ret |-> FALSE, got |-> Raised(""), rollcall |-> NoArgs]

Init ==
    /\ pc = "start"
    /\ chamber = ""
    /\ feed = <<>>
    /\ roster = <<>>
    /\ votes = NoFrame
    /\ shapes = <<>>
    /\ joined = NoJoin
    /\ state_votes = <<>>
    /\ call = NoCall
    /\ error = ""
    /\ args = NoArgs
    /\ requests = <<>>
    /\ report = NoReport
    /\ visualizer = NewVisualizer
    /\ summary = NoSummary
    /\ drawn_map = NoMap
    /\ last = NoFetch
    /\ runs = 0

\* cli.main: args = p.parse_args()
Main ==
    /\ pc = "start"
    /\ args' \in CliArgs
    /\ pc' = "parsed"
    /\ UNCHANGED <<session_vars, chamber, feed, roster, votes, shapes, joined, state_votes, call,
                   error, requests, report>>

\* the roll call a fetch is asked for: cli.main passes its arguments on, a
\* direct call passes DirectCall
RollCall == IF pc = "parsed" THEN args ELSE DirectCall

\* a fetch may start: called directly, or by cli.main for its chamber
MayFetch(ch) == pc = "start" \/ (pc = "parsed" /\ args.chamber = ch)

\* SenateSource().fetch returns: the GET answers 200 and the body parses
SenateFetch ==
    /\ MayFetch("senate")
    /\ \E doc \in IF pc = "start"
                  THEN SeqsUpTo(SenateMemberEntries, MaxMembers)
                  ELSE SeqsUpTo(SenateMemberEntries \cup SenateBlankEntries,
                                MaxShortMembers) :
          /\ feed' = doc
          /\ votes' = parse_senate_members(doc)
    /\ requests' = <<Request("GET",
                             senate_url(RollCall.congress, RollCall.session, RollCall.roll),
                             "200")>>
    /\ chamber' = "senate"
    /\ pc' = "fetched"
    /\ UNCHANGED <<session_vars, roster, shapes, joined, state_votes, call, error, args, report>>

\* as SenateFetchFail, but the fetch catches the exception and returns an
\* empty table
SenateFetchFail_swallowed ==
    /\ MayFetch("senate")
    /\ \E e \in FetchExceptions :
          /\ error' = e
          /\ requests' = <<Request("GET",
                                   senate_url(RollCall.congress, RollCall.session,
                                              RollCall.roll),
                                   FailedStatus(e))>>
    /\ votes' = DataFrame(<<>>, {"geoid", "vote"})
    /\ chamber' = "senate"
    /\ pc' = "fetched"
    /\ UNCHANGED <<session_vars, feed, roster, shapes, joined, state_votes, call, args, report>>

\* SenateSource().fetch raises: requests.get, raise_for_status or ET.fromstring
SenateFetchFail ==
    /\ MayFetch("senate")
    /\ \E e \in FetchExceptions :
          /\ error' = e
          /\ requests' = <<Request("GET",
                                   senate_url(RollCall.congress, RollCall.session,
                                              RollCall.roll),
                                   FailedStatus(e))>>
    /\ chamber' = "senate"
    /\ pc' = "failed"
    /\ UNCHANGED <<session_vars, feed, roster, votes, shapes, joined, state_votes, call, args, report>>

\* HouseSource().fetch returns: a HEAD answers 200, both GETs answer 200 and
\* both bodies parse
HouseFetch ==
    /\ MayFetch("house")
    /\ \E heads \in [1..2 -> HeadOutcomes] :
          LET res == house_url(congress_to_year(RollCall.congress), RollCall.roll, heads)
              long == pc = "start" /\ heads[1] = "200"
          IN  /\ res.ok
              /\ \E doc \in IF long
                            THEN SeqsUpTo(HouseRecordedVotes, MaxMembers)
                            ELSE SeqsUpTo(HouseRecordedVotes \cup HouseInlineVotes,
                                          MaxShortMembers),
                    r \in RosterDocs :
                    LET votes_df == parse_house_roll(doc)
                        result == build_geoid_df(votes_df, load_member_map_from_web(r))
                    IN  /\ feed' = doc
                        /\ roster' = r
                        /\ votes' = result
                        /\ report' = [votes |-> Len(votes_df.rows),
                                      mapped |-> Len(result.rows),
                                      unmapped |-> Len(votes_df.rows) - Len(result.rows)]
              /\ requests' = res.log \o <<Request("GET", res.url, "200"),
                                          Request("GET", MEMBER_URL, "200")>>
    /\ chamber' = "house"
    /\ pc' = "fetched"
    /\ UNCHANGED <<session_vars, shapes, joined, state_votes, call, error, args>>

\* HouseSource().fetch raises: no HEAD answers 200 (ValueError), or the GET of
\* the vote document, its parse, the GET of the roster or its parse fails
HouseFetchFail ==
    /\ MayFetch("house")
    /\ \E heads \in [1..2 -> HeadOutcomes] :
          LET res == house_url(congress_to_year(RollCall.congress), RollCall.roll, heads)
          IN  \/ /\ ~res.ok
                 /\ error' = "ValueError"
                 /\ requests' = res.log
              \/ /\ res.ok
                 /\ \E e \in FetchExceptions :
                       /\ error' = e
                       /\ \/ requests' = res.log \o
                                <<Request("GET", res.url,
                                          FailedStatus(e))>>
                          \/ requests' = res.log \o
                                <<Request("GET", res.url, "200"),
                                  Request("GET", MEMBER_URL,
                                          FailedStatus(e))>>
    /\ chamber' = "house"
    /\ pc' = "failed"
    /\ UNCHANGED <<session_vars, feed, roster, votes, shapes, joined, state_votes, call, args, report>>

\* house_map.main: fetch_vote_data returns, or raises on the empty table
HouseMapFetch ==
    /\ pc = "start"
    /\ \E inp \in HouseMapInputs, gets \in [1..2 -> GetOutcomes] :
          LET got == fetch_vote_text(inp.year, inp.roll, gets)
              long == inp = HouseMapExample /\ gets[1] = "200"
          IN  /\ got.ok
              /\ requests' = got.log
              /\ \E doc \in SeqsUpTo(HouseMapRecordedVotes,
                                     IF long THEN MaxMembers ELSE MaxShortMembers),
                    missing \in {None, NaN} :
                    LET res == fetch_vote_data(doc, missing)
                    IN  /\ feed' = doc
                        /\ votes' = res.df
                        /\ pc' = IF res.ok THEN "fetched" ELSE "failed"
                        /\ error' = res.exc
    /\ chamber' = "house_map"
    /\ UNCHANGED <<session_vars, roster, shapes, joined, state_votes, call, args, report>>

\* house_map.main: fetch_vote_data raises RuntimeError, no path could be fetched
HouseMapFetchFail ==
    /\ pc = "start"
    /\ \E inp \in HouseMapInputs, gets \in [1..2 -> GetOutcomes] :
          LET got == fetch_vote_text(inp.year, inp.roll, gets)
          IN  /\ ~got.ok
              /\ requests' = got.log
    /\ error' = "RuntimeError"
    /\ chamber' = "house_map"
    /\ pc' = "failed"
    /\ UNCHANGED <<session_vars, feed, roster, votes, shapes, joined, state_votes, call, args, report>>

\* load_states / load_districts / fetch_geographic_data
LoadGeometry ==
    /\ pc = "fetched"
    /\ shapes' \in ShapeChoices(chamber)
    /\ pc' = "loaded"
    /\ UNCHANGED <<session_vars, chamber, feed, roster, votes, joined, state_votes, call, error,
                   args, requests, report>>

\* join_votes(args.chamber, votes, shapes) / merge_dataframes(df, gdf)
Join ==
    /\ pc = "loaded"
    /\ LET res == IF chamber = "house_map" THEN merge_dataframes(votes, shapes)
                  ELSE join_votes(chamber, votes, shapes)
       IN  /\ joined' = res
           /\ pc' = IF res.ok THEN "joined" ELSE "failed"
           /\ error' = res.exc
    /\ UNCHANGED <<session_vars, chamber, feed, roster, votes, shapes, state_votes, call,
                   args, requests, report>>

\* render_map_senate(gdf, title=...): state_votes = _votes_by_state(gdf, vote_col)
RenderSenate ==
    /\ pc = "joined"
    /\ chamber = "senate"
    /\ args = NoArgs
    /\ state_votes' = votes_by_state(joined.rows)
    /\ pc' = "rendered"
    /\ UNCHANGED <<session_vars, chamber, feed, roster, votes, shapes, joined, call, error,
                   args, requests, report>>

\* render_map_house(gdf, title=...) / plot_votes
RenderHouse ==
    /\ pc = "joined"
    /\ chamber \in {"house", "house_map"}
    /\ args = NoArgs
    /\ pc' = "rendered"
    /\ UNCHANGED <<session_vars, chamber, feed, roster, votes, shapes, joined, state_votes, call,
                   error, args, requests, report>>

\* cli.main: render_map_senate / render_map_house called with the keyword
\* background=, which neither function accepts: the call raises TypeError
\* before the function body runs, and savefig is never reached
CliRender ==
    /\ pc = "joined"
    /\ args \in CliArgs
    /\ error' = "TypeError"
    /\ pc' = "failed"
    /\ UNCHANGED <<session_vars, chamber, feed, roster, votes, shapes, joined, state_votes, call,
                   args, requests, report>>

Return(fn, arg, ret) ==
    /\ pc = "start"
    /\ call' = [fn |-> fn, arg |-> arg, ret |-> ret]
    /\ pc' = "returned"
    /\ UNCHANGED <<session_vars, chamber, feed, roster, votes, shapes, joined, state_votes, error,
                   args, requests, report>>

\* build_map.main: one pass of the loop with three integers typed in:
\* fetch_vote_data, then on True the summary and, if asked for, the map
BuildMapPass ==
    /\ pc \in {"start", "looping"}
    /\ runs < MaxRuns
    /\ \E rc \in RollCalls, got \in BuildMapOutcomes, show_map \in BOOLEAN :
          LET res == SenateVoteVisualizer_fetch_vote_data(
                         visualizer, rc.congress, rc.session, rc.roll, got)
              self == [vote_info |-> res.vote_info, vote_data |-> res.vote_data]
          IN  /\ visualizer' = self
              /\ last' = [ret |-> res.ret, got |-> got,
                          rollcall |-> [chamber |-> "", congress |-> rc.congress,
                                        session |-> rc.session, roll |-> rc.roll]]
              /\ summary' = IF res.ret THEN print_vote_summary(self) ELSE NoSummary
              /\ drawn_map' = IF res.ret /\ show_map /\ print_vote_summary(self).error = ""
                              THEN create_map(self) ELSE NoMap
    /\ runs' = runs + 1
    /\ chamber' = "build_map"
    /\ pc' = "looping"
    /\ UNCHANGED <<feed, roster, votes, shapes, joined, state_votes, call, error,
                   args, requests, report>>

\* build_map.main: a pass in which int(input(...)) raises ValueError: nothing
\* is fetched, printed or drawn, and the loop goes on
BuildMapBadInput ==
    /\ pc \in {"start", "looping"}
    /\ runs < MaxRuns
    /\ summary' = NoSummary
    /\ drawn_map' = NoMap
    /\ runs' = runs + 1
    /\ chamber' = "build_map"
    /\ pc' = "looping"
    /\ UNCHANGED <<feed, roster, votes, shapes, joined, state_votes, call, error,
                   args, requests, report, visualizer, last>>

\* build_map.main: the answer to "another vote?" / "try again?" is not yes
BuildMapExit ==
    /\ pc = "looping"
    /\ pc' = "exited"
    /\ UNCHANGED <<session_vars, chamber, feed, roster, votes, shapes, joined,
                   state_votes, call, error, args, requests, report>>

CallNormalizeVote ==
    \E v \in NormalizeInputs : Return("_normalize_vote", v, normalize_vote(v))

CallVoteMapping ==
    \E v \in NormalizeInputs : Return("vote_mapping", v, vote_mapping(v))

CallComputeGeoid ==
    \E st \in StateArgs, d \in DistrictArgs :
        Return("compute_geoid", [state_abbr |-> st, district |-> d],
               compute_geoid(st, d))

\* _build_geoid_df on one vote row of member M1 with the roster {M1: sd}
CallBuildGeoid ==
    \E sd \in RosterTokens, v \in {"Yea", ""} :
        Return("_build_geoid_df", [sd |-> sd, vote |-> v],
               build_geoid_df(DataFrame(<<[bioguide |-> "M1", state |-> "", vote |-> v]>>,
                                        {"bioguide", "state", "vote"}),
                              [k \in {"M1"} |-> sd]))

CallCongressToYear ==
    \E c \in 1..MaxCongress : Return("_congress_to_year", [congress |-> c], congress_to_year(c))

\* determine_state_vote on every list of up to MaxMembers votes
CallDetermineStateVote ==
    \E vote_list \in SeqsUpTo(VoteCasts, MaxMembers) :
        Return("determine_state_vote", [votes |-> vote_list],
               determine_state_vote(vote_list))

\* join_votes on a votes table and a geometry table of the chamber's kind
CallJoinVotes ==
    \E ch \in ChamberArgs, v \in JoinFrames :
        \E s \in IF ch = "house" THEN DistrictShapes ELSE StateShapes :
            Return("join_votes", [chamber |-> ch, votes |-> v, shapes |-> s],
                   join_votes(ch, v, s))

Next ==
    \/ Main
    \/ SenateFetch
    \/ SenateFetchFail
    \/ HouseFetch
    \/ HouseFetchFail
    \/ HouseMapFetch
    \/ HouseMapFetchFail
    \/ LoadGeometry
    \/ Join
    \/ RenderSenate
    \/ RenderHouse
    \/ CliRender
    \/ CallNormalizeVote
    \/ CallVoteMapping
    \/ CallComputeGeoid
    \/ CallBuildGeoid
    \/ CallCongressToYear
    \/ CallJoinVotes
    \/ CallDetermineStateVote
    \/ BuildMapPass
    \/ BuildMapBadInput
    \/ BuildMapExit

Spec == Init /\ [][Next]_vars

TypeOK ==
    /\ pc \in {"start", "parsed", "fetched", "loaded", "joined", "rendered",
               "returned", "failed", "looping", "exited"}
    /\ chamber \in {"", "senate", "house", "house_map", "build_map"}
    /\ runs \in 0..MaxRuns
    /\ args \in CliArgs \cup {NoArgs}

(***************************************************************************)
(* Properties.                                                              *)
(***************************************************************************)
Min(S) == CHOOSE x \in S : \A y \in S : x <= y

\* the vote records whose geoid is the geometry key k
Records(k) == {j \in DOMAIN votes.rows : votes.rows[j].geoid = Str(k)}

\* the joined rows of the geometry key k
JoinedRows(k) == {i \in DOMAIN joined.rows : joined.rows[i].key = k}

AfterJoin == pc \in {"joined", "rendered"}
HouseRun == chamber \in {"house", "house_map"}

RECURSIVE LeftJoinRows(_)
\* one row per matching record, one row for a key without records
LeftJoinRows(s) ==
    IF s = <<>> THEN 0
    ELSE (IF Records(Head(s)) = {} THEN 1 ELSE Cardinality(Records(Head(s))))
         + LeftJoinRows(Tail(s))

\* C1 as stated: after the join of either chamber the joined table has exactly
\* as many rows as the geometry table.
C1_RowPerGeometryRow == AfterJoin => Len(joined.rows) = Len(shapes)

\* C1 amended: for a votes table that has its geoid column, the House join
\* returns exactly one row per geometry row; the Senate join returns, for each
\* geometry row, one row per vote record of that state and one row when there
\* is none, so it has at least as many rows as the geometry table and more as
\* soon as a state has two records.
C1_JoinRowCount ==
    AfterJoin =>
        /\ (HouseRun => Len(joined.rows) = Len(shapes))
        /\ (chamber = "senate") =>
              /\ Len(joined.rows) = LeftJoinRows(shapes)
              /\ Len(joined.rows) >= Len(shapes)
        /\ \A i \in DOMAIN shapes : JoinedRows(shapes[i]) # {}

\* C1 witness: a Senate join in which a state has two records and another none.
C1_Witness ==
    /\ pc = "joined"
    /\ chamber = "senate"
    /\ \E i \in DOMAIN shapes : Cardinality(Records(shapes[i])) >= 2
    /\ \E i \in DOMAIN shapes : Records(shapes[i]) = {}
    /\ Len(joined.rows) > Len(shapes)

VotedRecords(k) == {j \in Records(k) : notna(votes.rows[j].vote)}

RECURSIVE FirstOf(_, _)
FirstOf(S, n) ==
    IF n = 0 \/ S = {} THEN <<>> ELSE <<Min(S)>> \o FirstOf(S \ {Min(S)}, n - 1)

\* C3: on the Senate path a state with two or more vote records carries the
\* pair of the votes of its first two records in feed order, the first record
\* first (each vote under its normalized label); the pair is not sorted,
\* deduplicated or collapsed, and the records beyond the second are dropped.
C3_FirstTwoInFeedOrder ==
    pc = "rendered" /\ chamber = "senate" =>
        \A i \in DOMAIN shapes :
            Cardinality(Records(shapes[i])) >= 2 =>
                LET two == FirstOf(Records(shapes[i]), 2)
                IN  /\ shapes[i] \in DOMAIN state_votes
                    /\ Len(state_votes[shapes[i]]) = 2
                    /\ state_votes[shapes[i]][1] = normalize_vote(votes.rows[two[1]].vote).text
                    /\ state_votes[shapes[i]][2] = normalize_vote(votes.rows[two[2]].vote).text

\* C3 witness: a state with three records Yea, Nay, Aye carries (Yea, Nay).
C3_Witness ==
    /\ pc = "rendered"
    /\ chamber = "senate"
    /\ Cardinality(Records("CA")) = 3
    /\ votes.rows[Min(Records("CA"))].vote = Str("Yea")
    /\ "CA" \in DOMAIN state_votes
    /\ state_votes["CA"] = <<"Yea", "Nay">>
    /\ \E j \in Records("CA") : j > Min(Records("CA")) /\ votes.rows[j].vote = Str("Aye")

\* two votes are the same value, any two nulls counting as the same
SameVote(a, b) == a = b \/ (isna(a) /\ isna(b))

Returned(fn) == pc = "returned" /\ call.fn = fn

\* the district number a numeric token stands for, and whether it is one
IsDistrictNumber(d) ==
    d.tag = "str" /\ intOk(d.text) /\ intOf(d.text) >= 0 /\ intOf(d.text) <= 999

\* the state has a FIPS code (compute_geoid ignores the letter case)
Resolvable(st) == truthy(st) /\ STATEFP(upper(st.text)) # ""

\* C5 as stated: every resolved House geo_key has exactly five characters, the
\* 2-digit FIPS code and the district zero-padded to 3 digits, in compute_geoid
\* and in the roster resolver.
C5_FiveCharacters ==
    /\ (Returned("compute_geoid") /\ call.ret # None) => Len(call.ret.text) = 5
    /\ Returned("_build_geoid_df") =>
          \A i \in DOMAIN call.ret.rows : Len(call.ret.rows[i].geoid.text) = 5
    /\ (pc = "fetched" /\ chamber = "house") =>
          \A i \in DOMAIN votes.rows : Len(votes.rows[i].geoid.text) = 5

\* C5 amended: compute_geoid gives, for a state with a FIPS code and a district
\* number from 0 to 999, the five characters FIPS code + the number zero-padded
\* to 3 digits (CA 12 gives 06012, TX 07 gives 48007); the roster resolver
\* gives the FIPS code + the token's district part zero-padded to 2 digits, four
\* characters for the roster's tokens (NY10 gives 3610).
C5_GeoKeyFormat ==
    /\ (Returned("compute_geoid") /\ Resolvable(call.arg.state_abbr)
           /\ IsDistrictNumber(call.arg.district)) =>
          /\ call.ret.tag = "str"
          /\ Len(call.ret.text) = 5
          /\ SubSeq(call.ret.text, 1, 2) = STATEFP(upper(call.arg.state_abbr.text))
          /\ allDigits(SubSeq(call.ret.text, 3, 5))
          /\ digitsToNat(SubSeq(call.ret.text, 3, 5), 0) = intOf(call.arg.district.text)
    /\ (Returned("compute_geoid") /\ call.arg.state_abbr = Str("CA")
           /\ call.arg.district = Str("12")) => call.ret = Str("06012")
    /\ (Returned("compute_geoid") /\ call.arg.state_abbr = Str("tx")
           /\ call.arg.district = Str("07")) => call.ret = Str("48007")
    /\ (Returned("_build_geoid_df") /\ Len(call.arg.sd) \in {3, 4}
           /\ STATEFP(SubSeq(call.arg.sd, 1, 2)) # "") =>
          /\ Len(call.ret.rows) = 1
          /\ Len(call.ret.rows[1].geoid.text) = 4
          /\ SubSeq(call.ret.rows[1].geoid.text, 1, 2) = STATEFP(SubSeq(call.arg.sd, 1, 2))
          /\ SubSeq(call.ret.rows[1].geoid.text, 3, 4) =
                (IF Len(call.arg.sd) = 3 THEN "0" ELSE "") \o SubSeq(call.arg.sd, 3, Len(call.arg.sd))
    /\ (pc = "fetched" /\ chamber = "house") =>
          \A i \in DOMAIN votes.rows : Len(votes.rows[i].geoid.text) = 4

\* C5 witness: the roster resolver turned the token NY10 into 3610.
C5_Witness ==
    /\ Returned("_build_geoid_df")
    /\ call.arg.sd = "NY10"
    /\ call.ret.rows[1].geoid = Str("3610")

\* the at-large tokens of the spec, in lower case
AtLargeWords == {"0", "00", "al", "at-large", "at large"}

IsAtLarge(d) == d.tag = "str" /\ lower(strip(d.text)) \in AtLargeWords

\* the last n characters of the string t
Suffix(t, n) == SubSeq(t, Len(t) - n + 1, Len(t))

\* C6 as stated: for every at-large token and every resolvable state the House
\* geo_key ends with 000, in compute_geoid and in the roster resolver.
C6_AtLargeSuffix000 ==
    /\ (Returned("compute_geoid") /\ Resolvable(call.arg.state_abbr)
           /\ IsAtLarge(call.arg.district)) =>
          call.ret.tag = "str" /\ Suffix(call.ret.text, 3) = "000"
    /\ (Returned("_build_geoid_df") /\ Len(call.arg.sd) = 4
           /\ Suffix(call.arg.sd, 2) = "00" /\ STATEFP(SubSeq(call.arg.sd, 1, 2)) # "") =>
          /\ Len(call.ret.rows) = 1
          /\ Suffix(call.ret.rows[1].geoid.text, 3) = "000"

\* C6 amended: in compute_geoid every at-large token, in any letter case, gives
\* the FIPS code followed by 000; in the roster resolver an at-large token such
\* as AK00 gives the FIPS code followed by 00 (AK00 gives 0200).
C6_AtLargeSuffix ==
    /\ (Returned("compute_geoid") /\ Resolvable(call.arg.state_abbr)
           /\ IsAtLarge(call.arg.district)) =>
          call.ret = Str(STATEFP(upper(call.arg.state_abbr.text)) \o "000")
    /\ (Returned("_build_geoid_df") /\ Len(call.arg.sd) = 4
           /\ Suffix(call.arg.sd, 2) = "00" /\ STATEFP(SubSeq(call.arg.sd, 1, 2)) # "") =>
          /\ Len(call.ret.rows) = 1
          /\ call.ret.rows[1].geoid = Str(STATEFP(SubSeq(call.arg.sd, 1, 2)) \o "00")

\* C6 witness: compute_geoid turned WY, At-Large into 56000.
C6_Witness ==
    /\ Returned("compute_geoid")
    /\ call.arg.state_abbr = Str("WY")
    /\ call.arg.district = Str("At-Large")
    /\ call.ret = Str("56000")

\* the canonical value the spec gives a synonym, by its lower-case spelling
Canonical(t) ==
    CASE t \in {"aye", "yes", "yea"} -> "Yea"
      [] t \in {"no", "nay"} -> "Nay"
      [] t = "present" -> "Present"
      [] t \in {"not voting", "notvoting", "nv", "absent", "excused"} -> "Not Voting"
      [] OTHER -> ""

\* C7 as stated: every recognized synonym, in any letter case and with blanks
\* around it, is mapped to its canonical value.
C7_AnyLetterCase ==
    (Returned("_normalize_vote") /\ call.arg.tag = "str"
       /\ Canonical(lower(strip(call.arg.text))) # "") =>
        call.ret = Str(Canonical(lower(strip(call.arg.text))))

\* C7 amended: every recognized synonym spelled as in the table (Aye, Yes, Yea,
\* No, Nay, Present, Not Voting, NotVoting, NV, Absent, Excused), with or
\* without blanks around it, is mapped to its canonical value; a synonym in
\* another letter case is returned as it came, without the blanks around it.
C7_SynonymsAsSpelled ==
    (Returned("_normalize_vote") /\ call.arg.tag = "str"
       /\ Canonical(lower(strip(call.arg.text))) # "") =>
        IF strip(call.arg.text) \in
              {"Aye", "Yes", "Yea", "No", "Nay", "Present",
               "Not Voting", "NotVoting", "NV", "Absent", "Excused"}
        THEN call.ret = Str(Canonical(lower(strip(call.arg.text))))
        ELSE call.ret = Str(strip(call.arg.text))

\* C7 witness: " Aye  " was normalized to Yea.
C7_Witness ==
    /\ Returned("_normalize_vote")
    /\ call.arg = Str(" Aye  ")
    /\ call.ret = Str("Yea")

\* C8: the normalizer returns Not Voting for a null input and for the empty
\* string, in _normalize_vote and in the vote mapping of fetch_vote_data (where
\* an empty vote element reaches the mapping as a null).
C8_NullAndEmptyAreNotVoting ==
    /\ (Returned("_normalize_vote") /\ call.arg \in {None, Str("")}) =>
          call.ret = Str("Not Voting")
    /\ (Returned("vote_mapping") /\ call.arg = None) => call.ret = Str("Not Voting")
    /\ (pc = "fetched" /\ chamber = "house_map") =>
          \A i \in DOMAIN votes.rows : votes.rows[i].vote = Str("Not Voting")
                                         \/ notna(votes.rows[i].vote)

\* C9 as stated: for every input the normalizer returns one of the four values.
C9_TotalIntoVocabulary ==
    Returned("_normalize_vote") =>
        call.ret.tag = "str" /\ call.ret.text \in Vocabulary

\* C9 amended: the normalizer never fails and returns a string for every input:
\* one of the four values for None and for a text that, without the blanks
\* around it, is a key of the synonym table; every other text is returned
\* without the blanks around it and otherwise unchanged (Maybe stays Maybe, the
\* empty string stays empty, NaN becomes the text nan).
C9_TotalWithPassThrough ==
    Returned("_normalize_vote") =>
        /\ call.ret.tag = "str"
        /\ (call.arg = None => call.ret.text = "Not Voting")
        /\ (call.arg = NaN => call.ret.text = "nan")
        /\ (call.arg.tag = "str") =>
              IF strip(call.arg.text) \in VOTE_NORMALIZE_KEYS
              THEN call.ret.text \in Vocabulary
              ELSE call.ret.text = strip(call.arg.text) /\ call.ret.text \notin Vocabulary

\* C9 witness: the unrecognized text Maybe came back as Maybe.
C9_Witness ==
    /\ Returned("_normalize_vote")
    /\ call.arg = Str("Maybe")
    /\ call.ret = Str("Maybe")

\* C10 as stated: every vote in the table a source returns is one of the four
\* values.
C10_VotesAreCanonical ==
    pc = "fetched" /\ chamber \in {"senate", "house"} =>
        \A i \in DOMAIN votes.rows :
            votes.rows[i].vote.tag = "str" /\ votes.rows[i].vote.text \in Vocabulary

\* C10 amended: every vote in the table SenateSource.fetch returns is a
\* non-empty string, the vote_cast text of a member entry of the feed without
\* the blanks around it, or Not Voting; every vote in the table HouseSource.fetch
\* returns is the vote text of a recorded-vote entry of the feed without the
\* blanks around it, possibly the empty string. The text is the feed's, not
\* normalized.
C10_VotesAreFeedText ==
    /\ (pc = "fetched" /\ chamber = "senate") =>
          \A i \in DOMAIN votes.rows :
              LET v == votes.rows[i].vote
              IN  /\ v.tag = "str"
                  /\ v.text # ""
                  /\ \/ \E k \in DOMAIN feed : strip(orEmpty(feed[k].vote_cast)) = v.text
                     \/ /\ v.text = "Not Voting"
                        /\ \E k \in DOMAIN feed : strip(orEmpty(feed[k].vote_cast)) = ""
    /\ (pc = "fetched" /\ chamber = "house") =>
          \A i \in DOMAIN votes.rows :
              LET v == votes.rows[i].vote
              IN  /\ v.tag = "str"
                  /\ \E k \in DOMAIN feed :
                        feed[k].legislator /\ strip(orEmpty(feed[k].vote)) = v.text

\* C10 witness: the Senate table holds the feed text Aye.
C10_Witness ==
    /\ pc = "fetched"
    /\ chamber = "senate"
    /\ \E i \in DOMAIN votes.rows : votes.rows[i].vote = Str("Aye")

(***************************************************************************)
(* Properties of the sources: what is kept, what is dropped, what fails.    *)
(***************************************************************************)
\* a source has returned its table in this run
Fetched ==
    \/ pc \in {"fetched", "loaded", "joined", "rendered"}
    \/ pc = "failed" /\ error \in {"KeyError", "TypeError"}

SenateRun == chamber = "senate" /\ Fetched

\* the state code of the k-th member entry of a Senate feed, as the parser reads it
StateOf(k) == strip(orEmpty(feed[k].state))

\* the member entries whose state code is none of the fifty recognized codes
Unrecognized == {k \in DOMAIN feed : StateOf(k) # "" /\ StateOf(k) \notin TILE_POS_KEYS}

\* the rows of a table whose geoid is none of the fifty recognized codes
UnrecognizedRows(rows) ==
    {j \in DOMAIN rows : rows[j].geoid.tag = "str" /\ rows[j].geoid.text \notin TILE_POS_KEYS}

\* C11 as stated: a Senate member entry whose state code is not one of the
\* fifty recognized codes gives no row of the parser's table, and a feed with
\* such an entry never makes the join fail.
C11_UnrecognizedStateDropped ==
    /\ SenateRun => UnrecognizedRows(votes.rows) = {}
    /\ (SenateRun /\ Unrecognized # {}) => ~(pc = "failed" /\ error = "KeyError")

\* C11 amended: the Senate parser keeps a member entry with an unrecognized
\* state code: its table has one row per such entry, keyed by the code as
\* written; it is the left join that leaves the row out, so no joined row
\* carries the code, and a feed with such an entry never makes the join fail.
C11_UnrecognizedStateKept ==
    /\ SenateRun =>
          Cardinality(UnrecognizedRows(votes.rows)) = Cardinality(Unrecognized)
    /\ (SenateRun /\ AfterJoin) => UnrecognizedRows(joined.rows) = {}
    /\ (SenateRun /\ Unrecognized # {}) => ~(pc = "failed" /\ error = "KeyError")

\* a joined Senate run whose feed had a ZZ member and a CA member
C11_Witness ==
    /\ SenateRun
    /\ pc = "joined"
    /\ \E k \in Unrecognized : StateOf(k) = "ZZ"
    /\ \E j \in DOMAIN votes.rows : votes.rows[j].geoid = Str("ZZ")
    /\ \E j \in DOMAIN votes.rows : votes.rows[j].geoid = Str("CA")

HouseSourceRun == chamber = "house" /\ Fetched

Max(S) == CHOOSE x \in S : \A y \in S : y <= x

\* the recorded votes the House parser makes a record of, and a record's id
ParsedRecords == {k \in DOMAIN feed : feed[k].legislator}
IdOf(k) == strip(orEmpty(feed[k].name_id))

\* the roster entries of a member id, and the state+district token of an entry
EntriesOf(id) ==
    {i \in DOMAIN roster : id # "" /\ strip(orEmpty(roster[i].bioguideID)) = id}
TokenOf(i) == strip(orEmpty(roster[i].statedistrict))
StateOfToken(t) == SubSeq(t, 1, 2)

\* the entries that carry a state and a district: at least three characters
UsableEntriesOf(id) == {i \in EntriesOf(id) : Len(TokenOf(i)) >= 3}

\* C12 as stated: a House vote record is kept exactly when its member id has a
\* roster entry whose state is in the FIPS table, and the reported counts are
\* votes = mapped + unmapped with unmapped the number of dropped records.
C12_KeptIffRosterState ==
    HouseSourceRun =>
        LET kept == {k \in ParsedRecords :
                        \E i \in EntriesOf(IdOf(k)) :
                            STATEFP(StateOfToken(TokenOf(i))) # ""}
        IN  /\ Len(votes.rows) = Cardinality(kept)
            /\ report.unmapped = Cardinality(ParsedRecords \ kept)
            /\ report.votes = report.mapped + report.unmapped
            /\ report.unmapped >= 0

\* the records the roster resolver keeps: the id has a usable roster entry and
\* the state of the last such entry is in the FIPS table
KeptRecords ==
    {k \in ParsedRecords :
        /\ UsableEntriesOf(IdOf(k)) # {}
        /\ STATEFP(StateOfToken(TokenOf(Max(UsableEntriesOf(IdOf(k)))))) # ""}

\* C12 amended: a House vote record is kept exactly when its member id has a
\* usable roster entry (a non-empty id with a state+district token of at least
\* three characters) and the state of the last such entry is in the FIPS
\* table; the kept records keep their order and their vote text; the counts
\* reported are votes = mapped + unmapped, mapped the rows returned and
\* unmapped the number of dropped records, never negative.
C12_KeptIffUsableRosterState ==
    HouseSourceRun =>
        LET kept == FirstOf(KeptRecords, Cardinality(KeptRecords))
        IN  /\ Len(votes.rows) = Len(kept)
            /\ \A j \in DOMAIN votes.rows :
                  votes.rows[j].vote = Str(strip(orEmpty(feed[kept[j]].vote)))
            /\ report.votes = Cardinality(ParsedRecords)
            /\ report.mapped = Len(votes.rows)
            /\ report.unmapped = Cardinality(ParsedRecords \ KeptRecords)
            /\ report.votes = report.mapped + report.unmapped
            /\ report.unmapped >= 0

\* a House fetch of three recorded votes: one without a legislator, which is
\* not counted, one kept, and one dropped because the state of its roster
\* entry is not in the FIPS table
C12_Witness ==
    /\ HouseSourceRun
    /\ Len(feed) = 3
    /\ report = [votes |-> 2, mapped |-> 1, unmapped |-> 1]
    /\ \E k \in ParsedRecords \ KeptRecords :
          \E i \in UsableEntriesOf(IdOf(k)) : STATEFP(StateOfToken(TokenOf(i))) = ""

\* the member id has roster entries with more than one state+district token
Ambiguous(id) == Cardinality({TokenOf(i) : i \in EntriesOf(id)}) > 1

\* the records whose member id has roster entries that all name one token
Unambiguous ==
    {k \in ParsedRecords : EntriesOf(IdOf(k)) # {} /\ ~Ambiguous(IdOf(k))}

\* C13 as stated: a House record whose member id is missing from the roster or
\* ambiguous in it is excluded from the output, and every row of the output
\* is keyed in the state of an unambiguous roster entry of a record of the feed.
C13_AmbiguousOrMissingExcluded ==
    HouseSourceRun =>
        /\ Len(votes.rows) <= Cardinality(Unambiguous)
        /\ \A j \in DOMAIN votes.rows :
              \E k \in Unambiguous :
                  \E i \in EntriesOf(IdOf(k)) :
                      SubSeq(votes.rows[j].geoid.text, 1, 2)
                          = STATEFP(StateOfToken(TokenOf(i)))

\* the member entries that have a state, blanks around it aside
WithState == {k \in DOMAIN feed : StateOf(k) # ""}

\* C14: the Senate parser emits exactly one record per member entry with a
\* non-empty state, in document order, keyed by that state; an entry without a
\* state is skipped and the entries around it are still emitted; an entry
\* without a vote_cast (absent or blank) gets the vote Not Voting, any other
\* its vote_cast text.
C14_OneRecordPerMemberWithState ==
    SenateRun =>
        LET kept == FirstOf(WithState, Cardinality(WithState))
        IN  /\ Len(votes.rows) = Len(kept)
            /\ \A j \in DOMAIN votes.rows :
                  LET m == feed[kept[j]]
                  IN  /\ votes.rows[j].geoid = Str(StateOf(kept[j]))
                      /\ votes.rows[j].vote =
                            IF strip(orEmpty(m.vote_cast)) = ""
                            THEN Str("Not Voting")
                            ELSE Str(strip(m.vote_cast.text))

\* a feed of three members, the second without a state and the third without
\* a vote_cast: two records, the second of them Not Voting
C14_Witness ==
    /\ SenateRun
    /\ Len(feed) = 3
    /\ feed[1].state # None /\ feed[2].state = None /\ feed[3].state # None
    /\ feed[1].vote_cast # None /\ feed[3].vote_cast = None
    /\ Len(votes.rows) = 2
    /\ votes.rows[2].vote = Str("Not Voting")

\* the keys an entry's own state and district attributes spell: as the test
\* writes it, as a 4-character GEOID and as a 5-character GEOID
OwnKeys(rv) ==
    {rv.state.text \o "-" \o rv.district.text,
     STATEFP(rv.state.text) \o zfill(rv.district.text, 2),
     STATEFP(rv.state.text) \o zfill(rv.district.text, 3)}

\* C15 as stated: for a House roll call whose legislator elements carry state
\* and district inline, HouseSource.fetch returns a table with the columns
\* geoid and vote and one row per recorded vote, keyed by that entry's own
\* state and district and carrying its vote.
C15_KeyedByInlineAttributes ==
    (/\ HouseSourceRun
     /\ feed # <<>>
     /\ \A k \in DOMAIN feed :
           feed[k].legislator /\ truthy(feed[k].state) /\ truthy(feed[k].district)) =>
        /\ votes.cols = {"geoid", "vote"}
        /\ Len(votes.rows) = Len(feed)
        /\ \A j \in DOMAIN votes.rows :
              /\ votes.rows[j].geoid.text \in OwnKeys(feed[j])
              /\ votes.rows[j].vote = Str(strip(orEmpty(feed[j].vote)))

(***************************************************************************)
(* Properties of a run: failures, completion, order of the steps.           *)
(***************************************************************************)
LastRequest == requests[Len(requests)]

\* the fetch of a feed failed: the last request of the run was not answered
\* with 200, or a body did not parse
FeedFailed ==
    \/ requests # <<>> /\ LastRequest.status # "200"
    \/ error = "ParseError"

\* the exception a failed request ends the fetch with
RaisedBy(req) ==
    IF req.method = "HEAD" THEN "ValueError"
    ELSE IF chamber = "house_map" THEN "RuntimeError"
    ELSE IF req.status = "404" THEN "HTTPError" ELSE req.status

C17_DroppedRecordsRunCompletes ==
    (/\ chamber \in {"senate", "house"}
     /\ Fetched
     /\ Len(votes.rows) < Len(feed)) =>
        /\ ~(pc = "failed" /\ error = "KeyError")
        /\ AfterJoin =>
              \A i \in DOMAIN shapes :
                  /\ JoinedRows(shapes[i]) # {}
                  /\ Records(shapes[i]) = {} =>
                        \A r \in JoinedRows(shapes[i]) : joined.rows[r].vote = NaN

\* C18 as stated: when the fetch, the geometry load and the join of a cli.main
\* run have succeeded, the run goes on to render and to save and returns
\* without raising: it never ends in a failure after a successful join.
C18_CliRendersAndSaves ==
    (args \in CliArgs /\ joined.ok) => pc \in {"joined", "rendered", "saved"}

\* the roll call of the run, whoever called the fetch
RunRollCall == IF args \in CliArgs THEN args ELSE DirectCall

\* the 3-digit and the 4-digit path of the roll calls explored, written out
ExpectedPaths ==
    { <<"https://clerk.house.gov/evs/2021/roll045.xml",
        "https://clerk.house.gov/evs/2021/roll0045.xml">>,
      <<"https://clerk.house.gov/evs/2023/roll1234.xml",
        "https://clerk.house.gov/evs/2023/roll1234.xml">>,
      <<"https://clerk.house.gov/evs/2025/roll207.xml",
        "https://clerk.house.gov/evs/2025/roll0207.xml">>,
      <<"https://clerk.house.gov/evs/1995/roll1002.xml",
        "https://clerk.house.gov/evs/1995/roll1002.xml">> }

IsHead(req) == req.method = "HEAD"

\* the requests that try the candidate paths: the HEADs of _house_url, the
\* GETs of house_map.fetch_vote_data
Probes == IF chamber = "house" THEN SelectSeq(requests, IsHead) ELSE requests

\* C19: the House vote URL is resolved by trying the 3-digit path first and
\* the 4-digit path second; the 4-digit path is requested only if the 3-digit
\* attempt did not succeed (an answer other than 200, or a request exception),
\* and then it is requested; the first path that succeeds is the one the vote
\* document is read from; if neither succeeds an error is raised and no vote
\* data is returned.
C19_ThreeDigitsThenFour ==
    (chamber \in {"house", "house_map"} /\ pc # "start") =>
        \E pair \in ExpectedPaths :
            /\ Len(Probes) \in {1, 2}
            /\ Probes[1].url = pair[1]
            /\ (Len(Probes) = 2) <=> (Probes[1].status # "200")
            /\ (Len(Probes) = 2) => Probes[2].url = pair[2]
            /\ (Probes[Len(Probes)].status = "200" /\ chamber = "house") =>
                  /\ Len(requests) > Len(Probes)
                  /\ requests[Len(Probes) + 1].method = "GET"
                  /\ requests[Len(Probes) + 1].url = Probes[Len(Probes)].url
            /\ (Probes[Len(Probes)].status # "200") =>
                  /\ pc = "failed"
                  /\ error = IF chamber = "house" THEN "ValueError" ELSE "RuntimeError"
                  /\ requests = Probes
                  /\ votes = NoFrame

\* a House fetch whose 3-digit HEAD raised, whose 4-digit HEAD answered 200
\* and which read the vote document from the 4-digit path
C19_Witness ==
    /\ chamber = "house"
    /\ pc = "fetched"
    /\ Len(requests) = 4
    /\ requests[1] = Request("HEAD", "https://clerk.house.gov/evs/2021/roll045.xml",
                             "RequestException")
    /\ requests[2] = Request("HEAD", "https://clerk.house.gov/evs/2021/roll0045.xml", "200")
    /\ requests[3] = Request("GET", "https://clerk.house.gov/evs/2021/roll0045.xml", "200")
    /\ votes.rows # <<>>

\* the start of every House vote path of the year y
EvsPrefix(y) == "https://clerk.house.gov/evs/" \o natToStr(y) \o "/roll"

HasPrefix(t, prefix) == Len(t) >= Len(prefix) /\ SubSeq(t, 1, Len(prefix)) = prefix

\* C20: _congress_to_year(c) is 1789 + (c - 1) * 2 for every congress c >= 1
\* (1 gives 1789, 117 gives 2021, 118 gives 2023), and every vote path
\* HouseSource.fetch requests is the path of exactly that year.
C20_CongressToYear ==
    /\ Returned("_congress_to_year") =>
          /\ call.ret = 1789 + (call.arg.congress - 1) * 2
          /\ (call.arg.congress = 1) => call.ret = 1789
          /\ (call.arg.congress = 117) => call.ret = 2021
          /\ (call.arg.congress = 118) => call.ret = 2023
    /\ (chamber = "house" /\ pc # "start") =>
          \A i \in DOMAIN requests :
              requests[i].url # MEMBER_URL =>
                  HasPrefix(requests[i].url,
                            EvsPrefix(1789 + (RunRollCall.congress - 1) * 2))

\* a cli.main House run for the 118th congress that fetched its vote document
\* from a path of the year 2023
C20_Witness ==
    /\ chamber = "house"
    /\ pc = "fetched"
    /\ args \in CliArgs
    /\ args.congress = 118
    /\ \E i \in DOMAIN requests :
          requests[i] = Request("GET", "https://clerk.house.gov/evs/2023/roll1234.xml", "200")

NonNullRows(st) == {i \in JoinedRows(st) : notna(joined.rows[i].vote)}

\* C22 as stated: on the Senate path every state of the joined table gets a
\* list of exactly two entries; a state with k < 2 non-null votes gets those k
\* votes followed by 2 - k entries Not Voting, so a null vote never stands in
\* the pair as a value of its own.
C22_PaddedWithNotVoting ==
    (pc = "rendered" /\ chamber = "senate") =>
        \A st \in {joined.rows[i].key : i \in DOMAIN joined.rows} :
            /\ st \in DOMAIN state_votes
            /\ Len(state_votes[st]) = 2
            /\ LET k == Cardinality(NonNullRows(st))
                   ord == FirstOf(NonNullRows(st), k)
               IN  (k < 2) =>
                      /\ \A j \in 1..k :
                            state_votes[st][j] = normalize_vote(joined.rows[ord[j]].vote).text
                      /\ \A j \in (k + 1)..2 : state_votes[st][j] = "Not Voting"

(***************************************************************************)
(* Properties of the build_map.py session.                                  *)
(***************************************************************************)
\* the members of document d that are filed under state st, and their
\* vote_cast values in document order
MembersOf(d, st) == {i \in DOMAIN d.members : d.members[i].state = Str(st)}
DocVotes(d, st) ==
    LET idx == FirstOf(MembersOf(d, st), Cardinality(MembersOf(d, st)))
    IN  [j \in DOMAIN idx |->
            IF d.members[idx[j]].vote_cast = Absent THEN Str("Not Voting")
            ELSE d.members[idx[j]].vote_cast]

\* the states document d has votes for
DocStates(d) ==
    {d.members[i].state.text : i \in {j \in DOMAIN d.members : truthy(d.members[j].state)}}

\* the header of document d as vote_info shows it for the roll call rc
DocInfo(d, rc) ==
    [congress |-> IF d.congress = Absent THEN Str(natToStr(rc.congress)) ELSE d.congress,
     session |-> IF d.session = Absent THEN Str(natToStr(rc.session)) ELSE d.session,
     vote_number |-> IF d.vote_number = Absent THEN Str(natToStr(rc.roll))
                     ELSE d.vote_number,
     vote_date |-> IF d.vote_date = Absent THEN Str("Unknown") ELSE d.vote_date,
     question |-> IF d.question = Absent THEN Str("Unknown") ELSE d.question,
     vote_title |-> IF d.vote_title = Absent THEN Str("Unknown") ELSE d.vote_title]

C24_FetchIsAtomic ==
    [][BuildMapPass =>
          /\ last'.ret <=> (last'.got.kind = "doc")
          /\ last'.ret =>
                /\ visualizer'.vote_info = DocInfo(last'.got.doc, last'.rollcall)
                /\ DOMAIN visualizer'.vote_data = DocStates(last'.got.doc)
                /\ \A st \in DOMAIN visualizer'.vote_data :
                      visualizer'.vote_data[st] = DocVotes(last'.got.doc, st)
          /\ ~last'.ret => visualizer' = visualizer]_vars

\* a fetch that failed to parse after an earlier pass had stored votes: the
\* object still holds them and nothing was printed
C24_Witness ==
    /\ chamber = "build_map"
    /\ runs >= 2
    /\ ~last.ret
    /\ last.got.kind = "ParseError"
    /\ DOMAIN visualizer.vote_data = {"CA", "TX"}
    /\ visualizer.vote_info.vote_number = Str("160")
    /\ ~summary.printed

\* whether the list of votes has an entry that is exactly the text v
HasVote(vote_list, v) == \E i \in DOMAIN vote_list : vote_list[i] = Str(v)

\* C25: determine_state_vote is total and returns one of Yea, Nay, Split and
\* Not Voting: Split exactly when the list has a Yea and a Nay, Yea exactly
\* when it has a Yea and no Nay, Nay exactly when it has a Nay and no Yea,
\* Not Voting for every other list, the empty one and the lists of Present,
\* Not Voting, missing or unknown entries among them.
C25_DetermineStateVote ==
    Returned("determine_state_vote") =>
        LET vote_list == call.arg.votes
            yea == HasVote(vote_list, "Yea")
            nay == HasVote(vote_list, "Nay")
        IN  /\ call.ret \in {"Yea", "Nay", "Split", "Not Voting"}
            /\ (call.ret = "Split") <=> (yea /\ nay)
            /\ (call.ret = "Yea") <=> (yea /\ ~nay)
            /\ (call.ret = "Nay") <=> (nay /\ ~yea)
            /\ (call.ret = "Not Voting") <=> (~yea /\ ~nay)

\* two Yea and one Nay are a Split
C25_Witness ==
    /\ Returned("determine_state_vote")
    /\ call.arg.votes = <<Str("Yea"), Str("Nay"), Str("Yea")>>
    /\ call.ret = "Split"

====
